---- MODULE Spec2Model ----
(***************************************************************************)
(* A model of @orgsoft/jsr:                                                *)
(*   - getPackageDownloadSummary, the download time-series aggregator,     *)
(*   - queryOrama, the search gateway,                                     *)
(*   - findSimilarPackages, the enrichment pipeline (common.ts),           *)
(*   - the MCP server's tool registration and its compare tool (mcp.ts),   *)
(*   - the command line's `details` and `downloads` commands (cli.ts).     *)
(* Each async function is a small state machine whose steps are the        *)
(* stretches of code between two awaits.                                   *)
(***************************************************************************)
EXTENDS Integers, Sequences, FiniteSets, TLC

VARIABLES
    registryBody,   \* what the registry's /downloads endpoint holds for the package
    sumPc,          \* getPackageDownloadSummary: "idle" | "awaiting" | "returned" | "raised"
    sumOutcome,     \* how the fetch of getPackageDownloads ended
    sumResult,      \* the value getPackageDownloadSummary returned
    fsPc,           \* findSimilarPackages: "idle" | "resolving" | "searching" | "enriching" | "done" | "raised"
    fsArgs,         \* its arguments (packageName, options)
    packageResult,  \* queryOrama's answer to the resolving search
    similarRequest, \* the search parameters of the similarity search
    similarResults, \* queryOrama's answer to the similarity search
    limitedResults, \* the hits after self-exclusion and truncation
    downloadTasks,  \* one entry per hit: the state of its download promise
    fsResult,       \* the value findSimilarPackages returned
    runPermission,  \* Deno's `run` permission: "granted" | "prompt" | "denied"
    tools,          \* the names of the tools registered with the MCP server
    cmpPc,          \* compare tool: "idle" | "looping" | "returned"
    packages,       \* its argument, the list of identifiers
    packageDetails, \* the entries pushed so far, one per finished iteration
    cmpCalls,       \* per finished iteration, the upstream calls it made
    cmpResult,      \* meta.foundPackages and meta.notFoundPackages of the answer
    cmpAwaiting,    \* the upstream call the running iteration awaits, or "none"
    cmpGot,         \* what the awaited calls of the running iteration delivered
    cmpTrace,       \* the upstream calls issued and completed, in time order
    cliArgv,        \* command line: [command, args] as parseArgs delivers them
    cliPc,          \* "start" | "fetching" | "printed" | "exited"
    cliRequests,    \* the upstream calls the command made
    cliExitCode     \* the code given to Deno.exit, 0 when the command returns

sumVars == <<registryBody, sumPc, sumOutcome, sumResult>>
fsVars == <<fsPc, fsArgs, packageResult, similarRequest, similarResults,
            limitedResults, downloadTasks, fsResult>>
awaitVars == <<cmpAwaiting, cmpGot, cmpTrace>>
mcpVars == <<runPermission, tools, cmpPc, packages, packageDetails, cmpCalls, cmpResult,
             cmpAwaiting, cmpGot, cmpTrace>>
cliVars == <<cliArgv, cliPc, cliRequests, cliExitCode>>
vars == <<registryBody, sumPc, sumOutcome, sumResult, fsPc, fsArgs, packageResult,
          similarRequest, similarResults, limitedResults, downloadTasks, fsResult,
          runPermission, tools, cmpPc, packages, packageDetails, cmpCalls, cmpResult,
          cmpAwaiting, cmpGot, cmpTrace,
          cliArgv, cliPc, cliRequests, cliExitCode>>

(***************************************************************************)
(* Bounds of the model.                                                    *)
(***************************************************************************)
MaxLen == 185       \* longest download series (six 30-point windows and a remainder)
MaxSlope == 1       \* the series' counts are (slope * i + base) % CountMod
MaxBase == 1
CountMod == 3
GapEvery == 5       \* one missing day after every GapEvery points
MaxHits == 3        \* longest answer of the search backend
MaxLimit == 2       \* largest limit option
ShortLen == 2       \* longest series of a hit's download fetch during enrichment
MaxLongHits == 12   \* longest answer of the search backend when no downloads are fetched

(***************************************************************************)
(* Constants of the program.                                               *)
(***************************************************************************)
RecentWindow == 30      \* slice(-30)
Last7Window == 7        \* slice(-7)
WeekLen == 7
WeekCount == 4
MonthLen == 30
MonthCount == 6
DefaultSimilarLimit == 10   \* options.limit || 10
DocumentedSimilarLimit == 6 \* findSimilarPackages' doc comment: (default: 6)

Min(a, b) == IF a <= b THEN a ELSE b
Max(a, b) == IF a >= b THEN a ELSE b

(***************************************************************************)
(* JavaScript array helpers, as the code uses them.                        *)
(***************************************************************************)
\* Array.prototype.slice(a, b) with 0-based a, b >= 0
Slice(s, a, b) == SubSeq(s, Min(a, Len(s)) + 1, Min(b, Len(s)))

\* Array.prototype.slice(-k)
SliceLast(s, k) == SubSeq(s, Max(0, Len(s) - k) + 1, Len(s))

\* reduce((sum, entry) => sum + entry.count, 0); the counts are integers, so
\* the left fold is evaluated by halves, which keeps the evaluation shallow
RECURSIVE SumCounts(_)
SumCounts(s) ==
    IF Len(s) = 0 THEN 0
    ELSE IF Len(s) = 1 THEN s[1].count
    ELSE LET half == Len(s) \div 2
         IN  SumCounts(SubSeq(s, 1, half)) + SumCounts(SubSeq(s, half + 1, Len(s)))

\* Math.round(num / den) for num >= 0, den > 0 (halves round up)
JsRound(num, den) == (2 * num + den) \div (2 * den)

(***************************************************************************)
(* The registry's answers.  A JSON body is {jsonType, totalKind, total,    *)
(* versionsKind, recentVersions}: totalKind says whether `total` is        *)
(* absent, an array or some other JSON value.                              *)
(***************************************************************************)
DayOf(i) == i + (i \div GapEvery)

Series(n, slope, base) ==
    [i \in 1..n |-> [timeBucket |-> DayOf(i), count |-> (slope * i + base) % CountMod]]

NullBody == [jsonType |-> "null", totalKind |-> "absent", total |-> <<>>,
             versionsKind |-> "absent", recentVersions |-> <<>>]

ObjectBody(totalKind, total, versionsKind, versions) ==
    [jsonType |-> "object", totalKind |-> totalKind, total |-> total,
     versionsKind |-> versionsKind, recentVersions |-> versions]

VersionEntry(v, hasDownloads, n) ==
    [version |-> v, hasDownloads |-> hasDownloads, downloads |-> Series(n, 1, 1)]

VersionLists ==
    { <<>>,
      <<VersionEntry("1.0.2", TRUE, 3)>>,
      <<VersionEntry("1.0.2", FALSE, 0)>>,
      <<VersionEntry("1.0.2", TRUE, 2), VersionEntry("1.0.1", TRUE, 4)>>,
      <<VersionEntry("", TRUE, 1)>> }

\* every body the /downloads endpoint may hold
Bodies ==
    {NullBody, ObjectBody("number", <<>>, "absent", <<>>),
     ObjectBody("absent", <<>>, "absent", <<>>)}
    \cup { ObjectBody("array", Series(n, a, b), "array", vs) :
             n \in 0..MaxLen, a \in 0..MaxSlope, b \in 0..MaxBase, vs \in {<<>>} }
    \cup { ObjectBody("array", Series(n, 1, 0), "array", vs) :
             n \in 0..ShortLen, vs \in VersionLists }

(***************************************************************************)
(* getPackageDownloads -> fetchJSRAPI -> fetchWrapper: the outcome of the  *)
(* fetch is a thrown error or the parsed JSON body.                        *)
(***************************************************************************)
NetworkError == [kind |-> "network", status |-> 0, body |-> NullBody]
HttpError(status) == [kind |-> "http", status |-> status, body |-> NullBody]
MalformedJson == [kind |-> "badjson", status |-> 200, body |-> NullBody]
JsonOk(body) == [kind |-> "json", status |-> 200, body |-> body]

HttpStatuses == {404, 500}

\* getPackageDownloads(scope, name): a value or a thrown error
getPackageDownloads(outcome) ==
    CASE outcome.kind = "network" -> [thrown |-> TRUE, message |-> "network error", value |-> NullBody]
      [] outcome.kind = "http" -> [thrown |-> TRUE, message |-> "HTTP error! status", value |-> NullBody]
      [] outcome.kind = "badjson" -> [thrown |-> TRUE, message |-> "Unexpected token", value |-> NullBody]
      [] OTHER -> [thrown |-> FALSE, message |-> "", value |-> outcome.body]

(***************************************************************************)
(* getPackageDownloadSummary: the aggregation.                             *)
(***************************************************************************)
\* mutant: the loop without its `start >= 0` guard (partial windows are summed)
RECURSIVE WindowLoopNoGuard(_, _, _, _, _)
WindowLoopNoGuard(totalData, w, k, i, sums) ==
    IF i >= k THEN sums
    ELSE LET start == Len(totalData) - w - (i * w)
             end == Len(totalData) - (i * w)
         IN  WindowLoopNoGuard(totalData, w, k, i + 1,
                 <<SumCounts(Slice(totalData, Max(0, start), Max(0, end)))>> \o sums)

\* the loop `for (let i = 0; i < k; i++) { ... sums.unshift(total) }`
RECURSIVE WindowLoop(_, _, _, _, _)
WindowLoop(totalData, w, k, i, sums) ==
    IF i >= k THEN sums
    ELSE LET start == Len(totalData) - w - (i * w)
             end == Len(totalData) - (i * w)
         IN  WindowLoop(totalData, w, k, i + 1,
                 IF start >= 0
                 THEN <<SumCounts(Slice(totalData, Max(0, start), end))>> \o sums
                 ELSE sums)

\* mutant: push instead of unshift (newest window first)
WeeklySumsPush(totalData) ==
    LET sums == WindowLoop(totalData, WeekLen, WeekCount, 0, <<>>)
    IN  [j \in 1..Len(sums) |-> sums[Len(sums) + 1 - j]]

\* mutant: the weekly loop runs once more (i < 5)
WeeklySumsFive(totalData) == WindowLoop(totalData, WeekLen, WeekCount + 1, 0, <<>>)

WeeklySums(totalData) == WindowLoop(totalData, WeekLen, WeekCount, 0, <<>>)

\* mutant: the monthly loop bounded like the weekly one
MonthlySumsFour(totalData) == WindowLoop(totalData, MonthLen, WeekCount, 0, <<>>)

MonthlySums(totalData) == WindowLoop(totalData, MonthLen, MonthCount, 0, <<>>)

HasTotal(downloads) == downloads.totalKind = "array"

\* const totalData = downloads.total || []
TotalData(downloads) == IF HasTotal(downloads) THEN downloads.total ELSE <<>>

\* mutant: only the recent window is summed
TotalDownloadsRecentOnly(downloads) == SumCounts(SliceLast(TotalData(downloads), RecentWindow))

\* downloads.total?.reduce((sum, entry) => sum + entry.count, 0) || 0
TotalDownloads(downloads) ==
    IF HasTotal(downloads) THEN SumCounts(downloads.total) ELSE 0

\* mutant: the points of the last 30 calendar days
RecentActivityByDate(downloads) ==
    LET total == TotalData(downloads)
    IN  SelectSeq(total, LAMBDA pt : pt.timeBucket > total[Len(total)].timeBucket - RecentWindow)

\* downloads.total?.slice(-30) || []
RecentActivity(downloads) ==
    IF HasTotal(downloads) THEN SliceLast(downloads.total, RecentWindow) ELSE <<>>

\* mutant: the sum of the last points is always divided by 7
Last7DaysAverageBySeven(totalData) ==
    JsRound(SumCounts(SliceLast(totalData, Last7Window)), Last7Window)

\* last7Days.length > 0 ? Math.round(last7DaysTotal / last7Days.length) : 0
Last7DaysAverage(totalData) ==
    LET last7Days == SliceLast(totalData, Last7Window)
    IN  IF Len(last7Days) > 0 THEN JsRound(SumCounts(last7Days), Len(last7Days)) ELSE 0

\* mutant: the daily average is rounded down
DailyAverageFloor(totalDownloads, totalEntries) ==
    IF totalEntries > 0 THEN totalDownloads \div totalEntries ELSE 0

\* totalEntries > 0 ? Math.round(totalDownloads / totalEntries) : 0
DailyAverage(totalDownloads, totalEntries) ==
    IF totalEntries > 0 THEN JsRound(totalDownloads, totalEntries) ELSE 0

\* Math.round(dailyAverage * 7), Math.round(dailyAverage * 30): dailyAverage
\* is an integer, so Math.round changes nothing
WeeklyAverage(dailyAverage) == dailyAverage * WeekLen
MonthlyAverage(dailyAverage) == dailyAverage * MonthLen

HasLatest(downloads) ==
    downloads.versionsKind = "array" /\ Len(downloads.recentVersions) > 0

\* mutant: the downloads of every recent version are summed
LatestVersionDownloadsAll(downloads) ==
    LET RECURSIVE All(_)
        All(vs) == IF vs = <<>> THEN 0
                   ELSE (IF vs[1].hasDownloads THEN SumCounts(vs[1].downloads) ELSE 0)
                            + All(Tail(vs))
    IN  IF HasLatest(downloads) THEN All(downloads.recentVersions) ELSE 0

\* latestVersion?.downloads?.reduce(...) || 0
LatestVersionDownloads(downloads) ==
    IF HasLatest(downloads) /\ downloads.recentVersions[1].hasDownloads
    THEN SumCounts(downloads.recentVersions[1].downloads) ELSE 0

\* latestVersion?.version || 'Unknown'
LatestVersionOf(downloads) ==
    IF HasLatest(downloads) /\ downloads.recentVersions[1].version # ""
    THEN downloads.recentVersions[1].version ELSE "Unknown"

\* mutant: every point of the series is counted
ActivityEntriesAll(downloads) == Len(TotalData(downloads))

\* activityEntries: recentActivity.length
ActivityEntries(downloads) == Len(RecentActivity(downloads))

\* the body of the try block, for a body that is a JSON object whose
\* `total` is absent or an array
Aggregate(downloads) ==
    LET totalDownloads == TotalDownloads(downloads)
        recentActivity == RecentActivity(downloads)
        totalData == TotalData(downloads)
        dailyAverage == DailyAverage(totalDownloads, Len(totalData))
    IN  [totalDownloads |-> totalDownloads,
         recentDownloads |-> SumCounts(recentActivity),
         latestVersion |-> LatestVersionOf(downloads),
         latestVersionDownloads |-> LatestVersionDownloads(downloads),
         activityEntries |-> ActivityEntries(downloads),
         \* 0 stands for `undefined`
         lastActivity |-> IF Len(recentActivity) > 0
                          THEN recentActivity[Len(recentActivity)].timeBucket ELSE 0,
         last7DaysAverage |-> Last7DaysAverage(totalData),
         weeklyAverage |-> WeeklyAverage(dailyAverage),
         monthlyAverage |-> MonthlyAverage(dailyAverage),
         weeklySums |-> WeeklySums(totalData),
         monthlySums |-> MonthlySums(totalData)]

\* the object the catch block returns
ErrorSummary(message) ==
    [error |-> message,
     totalDownloads |-> 0,
     recentDownloads |-> 0,
     latestVersion |-> "Unknown",
     latestVersionDownloads |-> 0,
     activityEntries |-> 0,
     last7DaysAverage |-> 0,
     weeklyAverage |-> 0,
     monthlyAverage |-> 0,
     weeklySums |-> <<>>,
     monthlySums |-> <<>>]

\* the try block: getPackageDownloads, then the aggregation; reading a
\* property of null, or calling reduce on a non-array, throws a TypeError
TryBlock(outcome) ==
    LET got == getPackageDownloads(outcome)
    IN  IF got.thrown THEN [thrown |-> TRUE, message |-> got.message]
        ELSE IF got.value.jsonType = "null"
             THEN [thrown |-> TRUE, message |-> "Cannot read properties of null"]
        ELSE IF got.value.totalKind = "number"
             THEN [thrown |-> TRUE, message |-> "reduce is not a function"]
        ELSE [thrown |-> FALSE, value |-> Aggregate(got.value)]

NoSummary == [none |-> TRUE]

\* mutant: only errors of the fetch are caught, a TypeError of the aggregation escapes
getPackageDownloadSummaryFetchOnly(outcome) ==
    LET t == TryBlock(outcome)
    IN  IF t.thrown
        THEN IF getPackageDownloads(outcome).thrown
             THEN [raised |-> FALSE, value |-> ErrorSummary(t.message)]
             ELSE [raised |-> TRUE, value |-> NoSummary]
        ELSE [raised |-> FALSE, value |-> t.value]

\* mutant: an empty series is reported like an unavailable one
getPackageDownloadSummaryEmptyIsError(outcome) ==
    LET t == TryBlock(outcome)
    IN  IF t.thrown \/ t.value.activityEntries = 0
        THEN [raised |-> FALSE, value |-> ErrorSummary("No download data")]
        ELSE [raised |-> FALSE, value |-> t.value]

\* try { ... } catch (_error) { return {error: getErrorMessage(_error), ...} }
getPackageDownloadSummary(outcome) ==
    LET t == TryBlock(outcome)
    IN  IF t.thrown
        THEN [raised |-> FALSE, value |-> ErrorSummary(t.message)]
        ELSE [raised |-> FALSE, value |-> t.value]

NoOutcome == [kind |-> "none", status |-> 0, body |-> NullBody]

(***************************************************************************)
(* formatPackageDownloads: the trend lines of the report.  A label is the  *)
(* number of windows back it names: 0 for 'this week' / 'this month', i    *)
(* for '<i> week(s) ago' / '<i> month(s) ago'.                             *)
(***************************************************************************)
\* i === 0 ? 'this week' : `${i} week${i > 1 ? 's' : ''} ago`
WeekLabel(i) == i
MonthLabel(i) == i

\* summary.weeklySums.map((sum, i) => `${weekLabel}: ${sum}`)
WeeklyTrends(summary) ==
    [j \in 1..Len(summary.weeklySums) |->
        [ago |-> WeekLabel(j - 1), sum |-> summary.weeklySums[j]]]

\* summary.monthlySums.map((sum, i) => `${monthLabel}: ${sum}`)
MonthlyTrends(summary) ==
    [j \in 1..Len(summary.monthlySums) |->
        [ago |-> MonthLabel(j - 1), sum |-> summary.monthlySums[j]]]

(***************************************************************************)
(* The search gateway.  client.search ends with a result, with a falsy     *)
(* result, or by throwing (with or without an httpResponse).               *)
(***************************************************************************)
StdHttp == [id |-> "@std/http", scope |-> "std", name |-> "http", description |-> "HTTP utilities"]
StdPath == [id |-> "@std/path", scope |-> "std", name |-> "path", description |-> "path utilities"]
OakOak == [id |-> "@oak/oak", scope |-> "oak", name |-> "oak", description |-> "HTTP middleware"]

Docs == {StdHttp, StdPath, OakOak}

\* the documents the resolving search may rank first
ResolvedDocs == {StdHttp, StdPath}

RECURSIVE SeqsUpTo(_, _)
SeqsUpTo(S, n) ==
    IF n = 0 THEN {<<>>}
    ELSE LET shorter == SeqsUpTo(S, n - 1)
         IN  shorter \cup {Append(q, x) : q \in {r \in shorter : Len(r) = n - 1}, x \in S}

\* the backend's hits for a ranking of documents (best first)
HitsOf(docs) == [i \in 1..Len(docs) |-> [document |-> docs[i], score |-> 100 - i]]

\* longer rankings of distinct documents, with or without `first` at the top
FillerDoc(i) ==
    [id |-> ToString(i), scope |-> "pkg", name |-> ToString(i), description |-> "filler"]

LongRankings(first) ==
    { [i \in 1..n |-> FillerDoc(i)] : n \in (MaxHits + 1)..MaxLongHits }
    \cup { [i \in 1..n |-> IF i = 1 THEN first ELSE FillerDoc(i)] :
              n \in (MaxHits + 1)..MaxLongHits }

SearchOk(docs) == [kind |-> "result", hits |-> HitsOf(docs)]
SearchNull == [kind |-> "null", hits |-> <<>>]
SearchHttpError == [kind |-> "httpError", hits |-> <<>>]
SearchThrows == [kind |-> "throws", hits |-> <<>>]

SearchFailures == {SearchNull, SearchHttpError, SearchThrows}

\* const searchParams = {term, limit: options.limit || 20, ..., ...options}
SearchParams(term, options) ==
    [term |-> term, limit |-> IF options.limitGiven THEN options.limit ELSE 20]

\* mutant: a search request that fails makes queryOrama raise
queryOramaRaising(outcome) ==
    IF outcome.kind = "result"
    THEN [raised |-> FALSE, count |-> Len(outcome.hits), hits |-> outcome.hits]
    ELSE [raised |-> TRUE, count |-> 0, hits |-> <<>>]

\* try { res = await client.search(...); if (!res) return {error}; return res }
\* catch { return {count: 0, hits: [], error} }
queryOrama(outcome) ==
    CASE outcome.kind = "result" -> [raised |-> FALSE, count |-> Len(outcome.hits), hits |-> outcome.hits]
      [] outcome.kind = "null" ->
            [raised |-> FALSE, count |-> 0, hits |-> <<>>, error |-> "Search failed: received null response"]
      [] outcome.kind = "httpError" ->
            [raised |-> FALSE, count |-> 0, hits |-> <<>>, error |-> "Orama API error"]
      [] OTHER ->
            [raised |-> FALSE, count |-> 0, hits |-> <<>>, error |-> "Search failed"]

(***************************************************************************)
(* findSimilarPackages.                                                    *)
(***************************************************************************)
Identifiers == {"@std/http", "http"}

IncludeOptions == {"undefined", "true", "false"}

\* options.limit is absent (limitGiven = FALSE) or a number
ArgsSet ==
    { [packageName |-> id, limitGiven |-> g, limit |-> l, includeDownloads |-> inc] :
        id \in Identifiers, g \in BOOLEAN, l \in 0..MaxLimit, inc \in IncludeOptions }
    \ { a \in [packageName : Identifiers, limitGiven : {FALSE}, limit : 1..MaxLimit,
               includeDownloads : IncludeOptions] : TRUE }

\* const includeDownloads = options.includeDownloads !== false
IncludeDownloads(args) == args.includeDownloads # "false"

\* options.limit || 10
LimitOrDefault(args) ==
    IF args.limitGiven /\ args.limit # 0 THEN args.limit ELSE DefaultSimilarLimit

\* {limit: (options.limit || 10) + 1, boost: {...}, ...options}
SimilarOptions(args) ==
    [limitGiven |-> TRUE,
     limit |-> IF args.limitGiven THEN args.limit ELSE LimitOrDefault(args) + 1]

RECURSIVE FilterSeq(_, _)
FilterSeq(hits, id) ==
    IF hits = <<>> THEN <<>>
    ELSE IF hits[1].document.id # id
         THEN <<hits[1]>> \o FilterSeq(Tail(hits), id)
         ELSE FilterSeq(Tail(hits), id)

\* mutant: only a self-match ranked first is removed
FilteredFirstOnly(hits, pkg) ==
    IF hits # <<>> /\ hits[1].document.id = pkg.id THEN Tail(hits) ELSE hits

\* mutant: hits are compared with the identifier, not with the resolved document
FilteredByIdentifier(hits, pkg) == FilterSeq(hits, "@std/http")

\* similarResults?.hits?.filter(hit => hit.document.id !== pkg.id) || []
Filtered(hits, pkg) == FilterSeq(hits, pkg.id)

\* filtered.slice(0, options.limit || 10)
Limited(filtered, args) == Slice(filtered, 0, LimitOrDefault(args))

\* the download outcomes a hit's fetch may have during enrichment
EnrichOutcomes ==
    { HttpError(404),
      JsonOk(NullBody),
      JsonOk(ObjectBody("array", <<>>, "array", <<>>)),
      JsonOk(ObjectBody("array", Series(ShortLen, 1, 1), "array",
                        <<VersionEntry("1.0.2", TRUE, 1)>>)) }

\* mutant: the summary is attached whatever it says
EnhanceAlways(hit, outcome) ==
    [document |-> hit.document, score |-> hit.score,
     downloads |-> getPackageDownloadSummary(outcome).value]

\* the callback of limitedResults.map: {...hit, downloads: downloads.error ?
\* undefined : downloads}, or {...hit} when the summary call throws; a hit
\* whose `downloads` is undefined is the record without that field
Enhance(hit, outcome) ==
    LET d == getPackageDownloadSummary(outcome)
    IN  IF d.raised \/ ("error" \in DOMAIN d.value /\ d.value.error # "")
        THEN [document |-> hit.document, score |-> hit.score]
        ELSE [document |-> hit.document, score |-> hit.score, downloads |-> d.value]

Pending == [state |-> "pending"]
Fulfilled(outcome, value) == [state |-> "fulfilled", outcome |-> outcome, value |-> value]

\* mutant: only the first fetch is started, the others wait for their turn
LaunchedOneAtATime(limited) ==
    [i \in 1..Len(limited) |-> IF i = 1 THEN Pending ELSE [state |-> "queued"]]

\* limitedResults.map(async (hit) => ...): every callback runs up to its
\* await, so every fetch is started before the map returns
Launched(limited) == [i \in 1..Len(limited) |-> Pending]

AllFulfilled(tasks) == \A i \in 1..Len(tasks) : tasks[i].state = "fulfilled"

\* mutant: hits whose download fetch failed are left out of the result
JoinedOnlyEnriched(tasks) ==
    LET RECURSIVE Keep(_)
        Keep(ts) == IF ts = <<>> THEN <<>>
                    ELSE IF "downloads" \in DOMAIN ts[1].value
                         THEN <<ts[1].value>> \o Keep(Tail(ts))
                         ELSE Keep(Tail(ts))
    IN  Keep(tasks)

\* const results = await Promise.all(downloadPromises): the values in the
\* order of the promises
Joined(tasks) == [i \in 1..Len(tasks) |-> tasks[i].value]

NotFoundResult == [hits |-> <<>>, count |-> 0, error |-> "Package not found"]

FoundResult(enhancedHits, pkg) ==
    [hits |-> enhancedHits, count |-> Len(enhancedHits), originalPackage |-> pkg]

NoResult == [none |-> TRUE]
NoSearchResult == [raised |-> FALSE, count |-> 0, hits |-> <<>>]
NoRequest == [term |-> <<>>, limit |-> 0]
NoArgs == [packageName |-> "", limitGiven |-> FALSE, limit |-> 0, includeDownloads |-> "undefined"]

(***************************************************************************)
(* The MCP server (mcp.ts): the tools registered when the module loads.    *)
(***************************************************************************)
PermissionStates == {"granted", "prompt", "denied"}

AllTools ==
    {"package_docs", "search", "find_similar", "discover", "compare", "scope_packages",
     "package_details", "package_downloads", "search_status", "package_file"}

\* server.tool(...) at module level; only the registration of "search" is
\* inside `if (Deno.permissions.querySync({name: "run"}).state === "granted")`
RegisteredTools(permission) ==
    (AllTools \ {"search"}) \cup (IF permission = "granted" THEN {"search"} ELSE {})

(***************************************************************************)
(* The compare tool.  Identifiers are strings, modelled as sequences of    *)
(* characters so that the regular expression of the handler is computed.   *)
(***************************************************************************)
ScopedAt == <<"@", "a", "/", "b">>          \* "@a/b"
Scoped == <<"a", "/", "b">>                 \* "a/b"
ScopedDeep == <<"a", "/", "b", "/", "b">>   \* "a/b/b"
AtSlash == <<"@", "/", "b">>                \* "@/b"
Bare == <<"b">>                             \* "b"
NoName == <<"a", "/">>                      \* "a/"
NoScope == <<"/", "b">>                     \* "/b"

CmpIdentifiers == {ScopedAt, Scoped, ScopedDeep, AtSlash, Bare, NoName, NoScope}

\* the `packages` argument: lists of at most two identifiers
PackageLists ==
    {<<>>} \cup {<<a>> : a \in CmpIdentifiers} \cup {<<a, b>> : a, b \in CmpIdentifiers}

\* the index of the first "/" of s, 0 when there is none
FirstSlash(s) ==
    IF \E i \in 1..Len(s) : s[i] = "/"
    THEN CHOOSE i \in 1..Len(s) : s[i] = "/" /\ \A j \in 1..(i - 1) : s[j] # "/"
    ELSE 0

\* mutant: an identifier without "/" is taken as a package name with an empty scope
MatchPackageBareName(pkgName) ==
    LET p == FirstSlash(pkgName)
        at == IF pkgName[1] = "@" /\ p >= 3 THEN 1 ELSE 0
    IN  IF p >= 2 /\ p < Len(pkgName)
        THEN [matched |-> TRUE, scope |-> SubSeq(pkgName, 1 + at, p - 1),
              name |-> SubSeq(pkgName, p + 1, Len(pkgName))]
        ELSE IF p = 0 /\ Len(pkgName) > 0
        THEN [matched |-> TRUE, scope |-> <<>>, name |-> pkgName]
        ELSE [matched |-> FALSE, scope |-> <<>>, name |-> <<>>]

\* pkgName.match(/^@?([^/]+)\/(.+)$/): [^/]+ ends at the first "/", which
\* needs a character before it and one after it; a leading "@" is left out
\* of the scope unless the scope would then be empty
MatchPackage(pkgName) ==
    LET p == FirstSlash(pkgName)
        at == IF pkgName[1] = "@" /\ p >= 3 THEN 1 ELSE 0
    IN  IF p >= 2 /\ p < Len(pkgName)
        THEN [matched |-> TRUE, scope |-> SubSeq(pkgName, 1 + at, p - 1),
              name |-> SubSeq(pkgName, p + 1, Len(pkgName))]
        ELSE [matched |-> FALSE, scope |-> <<>>, name |-> <<>>]

\* one upstream call as its caller sees it: ok = it did not throw; value =
\* "none" when it threw, "null" for a null body, "error" for a value that
\* carries an `error` field, "object" otherwise
RegistryCall(fn, r) ==
    [fn |-> fn, ok |-> ~ r.thrown, limit |-> 0, hits |-> 0,
     value |-> IF r.thrown THEN "none" ELSE IF r.value.isNull THEN "null" ELSE "object"]

SummaryCall(summary) ==
    [fn |-> "getPackageDownloadSummary", ok |-> ~ summary.raised, limit |-> 0, hits |-> 0,
     value |-> IF summary.raised THEN "none"
               ELSE IF "error" \in DOMAIN summary.value THEN "error" ELSE "object"]

SearchCall(params, res) ==
    [fn |-> "queryOrama", ok |-> ~ res.raised, limit |-> params.limit, hits |-> Len(res.hits),
     value |-> IF res.raised THEN "none"
               ELSE IF "error" \in DOMAIN res THEN "error" ELSE "object"]

\* how a fetch of the registry ends: a JSON object, the JSON value null, or
\* a failure (network error, status that is not ok, unparsable body)
RegistryOutcomes == {"ok", "null", "fail"}

NullInfo == [isNull |-> TRUE, latest |-> "undefined", description |-> "undefined"]
MetaInfo == [isNull |-> FALSE, latest |-> "1.0.0", description |-> "undefined"]
DetailsInfo == [isNull |-> FALSE, latest |-> "undefined", description |-> "from the registry"]

\* fetchJSRDirect(`/@${scope}/${packageName}/meta.json`)
fetchJSRDirect(outcome) ==
    CASE outcome = "fail" -> [thrown |-> TRUE, message |-> "JSR direct error", value |-> NullInfo]
      [] outcome = "null" -> [thrown |-> FALSE, message |-> "", value |-> NullInfo]
      [] OTHER -> [thrown |-> FALSE, message |-> "", value |-> MetaInfo]

\* getPackageDetails -> fetchJSRAPI(`/scopes/${scope}/packages/${packageName}`)
getPackageDetails(outcome) ==
    CASE outcome = "fail" -> [thrown |-> TRUE, message |-> "JSR API error", value |-> NullInfo]
      [] outcome = "null" -> [thrown |-> FALSE, message |-> "", value |-> NullInfo]
      [] OTHER -> [thrown |-> FALSE, message |-> "", value |-> DetailsInfo]

\* try { return await fetchJSRDirect(...) } catch { return await getPackageDetails(...) }
getPackageInfoDirect(meta, detailsFallback) ==
    LET d == fetchJSRDirect(meta)
        f == getPackageDetails(detailsFallback)
    IN  IF ~ d.thrown
        THEN [thrown |-> FALSE, message |-> "", value |-> d.value,
              calls |-> <<RegistryCall("fetchJSRDirect", d)>>]
        ELSE [thrown |-> f.thrown, message |-> f.message, value |-> f.value,
              calls |-> <<RegistryCall("fetchJSRDirect", d),
                          RegistryCall("getPackageDetails", f)>>]

\* what the three lookups and the search of one iteration meet upstream
CmpDownloadOutcomes ==
    { HttpError(404),
      JsonOk(ObjectBody("array", Series(ShortLen, 1, 1), "array", <<>>)) }

CmpDoc == [id |-> <<"@", "a", "/", "b">>, scope |-> <<"a">>, name |-> <<"b">>,
           description |-> "from the index"]

CmpSearchOutcomes == {SearchOk(<<>>), SearchOk(<<CmpDoc>>), SearchHttpError, SearchThrows}

Upstreams ==
    [meta : RegistryOutcomes, detailsFallback : {"ok", "fail"}, details : RegistryOutcomes,
     downloads : CmpDownloadOutcomes, search : CmpSearchOutcomes]

\* an iteration that calls nothing upstream
NoUpstream ==
    [meta |-> "fail", detailsFallback |-> "fail", details |-> "fail",
     downloads |-> HttpError(404), search |-> SearchOk(<<>>)]

NoEntry == [found |-> FALSE]

ExactEntry(scope, name, pkg, details, downloadSummary) ==
    [id |-> <<"@">> \o scope \o <<"/">> \o name, name |-> name, scope |-> scope,
     description |-> details.description, latestVersion |-> pkg.latest,
     recentDownloads |-> downloadSummary.recentDownloads,
     totalDownloads |-> downloadSummary.totalDownloads, found |-> TRUE]

\* mutant: a download summary that reports an error fails the exact lookup
ExactLookupOfStrict(scope, name, pkg, details, summary) ==
    LET c2 == pkg.calls \o <<RegistryCall("getPackageDetails", details)>>
        c3 == c2 \o <<SummaryCall(summary)>>
    IN  IF pkg.thrown
        THEN [thrown |-> TRUE, message |-> pkg.message, calls |-> pkg.calls, entry |-> NoEntry]
        ELSE IF details.thrown
        THEN [thrown |-> TRUE, message |-> details.message, calls |-> c2, entry |-> NoEntry]
        ELSE IF summary.raised \/ "error" \in DOMAIN summary.value
        THEN [thrown |-> TRUE, message |-> "download error", calls |-> c3, entry |-> NoEntry]
        ELSE IF pkg.value.isNull \/ details.value.isNull
        THEN [thrown |-> TRUE, message |-> "TypeError", calls |-> c3, entry |-> NoEntry]
        ELSE [thrown |-> FALSE, message |-> "", calls |-> c3,
              entry |-> ExactEntry(scope, name, pkg.value, details.value, summary.value)]

\* the inner try block, given what its three awaited calls delivered: the
\* first of them that threw ends the block, and so does reading a property
\* of a null body (a TypeError) when the entry is built
ExactLookupOf(scope, name, pkg, details, summary) ==
    LET c2 == pkg.calls \o <<RegistryCall("getPackageDetails", details)>>
        c3 == c2 \o <<SummaryCall(summary)>>
    IN  IF pkg.thrown
        THEN [thrown |-> TRUE, message |-> pkg.message, calls |-> pkg.calls, entry |-> NoEntry]
        ELSE IF details.thrown
        THEN [thrown |-> TRUE, message |-> details.message, calls |-> c2, entry |-> NoEntry]
        ELSE IF summary.raised
        THEN [thrown |-> TRUE, message |-> "download error", calls |-> c3, entry |-> NoEntry]
        ELSE IF pkg.value.isNull \/ details.value.isNull
        THEN [thrown |-> TRUE, message |-> "TypeError", calls |-> c3, entry |-> NoEntry]
        ELSE [thrown |-> FALSE, message |-> "", calls |-> c3,
              entry |-> ExactEntry(scope, name, pkg.value, details.value, summary.value)]

\* const pkg = await getPackageInfoDirect(scope, name); const details = await
\* getPackageDetails(scope, name); const downloadSummary = await
\* getPackageDownloadSummary(scope, name)
ExactLookup(scope, name, up) ==
    ExactLookupOf(scope, name, getPackageInfoDirect(up.meta, up.detailsFallback),
                  getPackageDetails(up.details), getPackageDownloadSummary(up.downloads))

FallbackEntry(doc) ==
    [id |-> doc.id, name |-> doc.name, scope |-> doc.scope, description |-> doc.description,
     found |-> TRUE, fallback |-> TRUE]

NotFoundEntry(pkgName, error) == [id |-> pkgName, found |-> FALSE, error |-> error]

\* mutant: a search without hits is issued a second time
FallbackSearchRetry(pkgName, up) ==
    LET res == queryOrama(up.search)
        call == SearchCall(SearchParams(pkgName, [limitGiven |-> TRUE, limit |-> 1]), res)
    IN  IF res.raised
        THEN [thrown |-> TRUE, message |-> "Search failed", calls |-> <<call>>, entry |-> NoEntry]
        ELSE IF Len(res.hits) >= 1
        THEN [thrown |-> FALSE, message |-> "", calls |-> <<call>>,
              entry |-> FallbackEntry(res.hits[1].document)]
        ELSE [thrown |-> FALSE, message |-> "", calls |-> <<call, call>>,
              entry |-> NotFoundEntry(pkgName, "Package not found")]

\* the inner catch block: queryOrama(pkgName, {limit: 1, mode, boost}), then
\* searchResult.hits?.[0] decides
FallbackSearch(pkgName, up) ==
    LET res == queryOrama(up.search)
        call == SearchCall(SearchParams(pkgName, [limitGiven |-> TRUE, limit |-> 1]), res)
    IN  IF res.raised
        THEN [thrown |-> TRUE, message |-> "Search failed", calls |-> <<call>>, entry |-> NoEntry]
        ELSE IF Len(res.hits) >= 1
        THEN [thrown |-> FALSE, message |-> "", calls |-> <<call>>,
              entry |-> FallbackEntry(res.hits[1].document)]
        ELSE [thrown |-> FALSE, message |-> "", calls |-> <<call>>,
              entry |-> NotFoundEntry(pkgName, "Package not found")]

InvalidFormat == "Invalid package format. Use @scope/name or scope/name"

\* the body of `for (const pkgName of packages)`, given the match and what
\* the exact lookup and the fallback search deliver: the entry it pushes and
\* the upstream calls it makes
ResolveOf(pkgName, m, direct, fb) ==
    IF ~ m.matched
    THEN [entry |-> NotFoundEntry(pkgName, InvalidFormat), calls |-> <<>>]
    ELSE IF ~ direct.thrown
    THEN [entry |-> direct.entry, calls |-> direct.calls]
    ELSE IF fb.thrown
    THEN [entry |-> NotFoundEntry(pkgName, fb.message), calls |-> direct.calls \o fb.calls]
    ELSE [entry |-> fb.entry, calls |-> direct.calls \o fb.calls]

ScopeOf(pkgName) == MatchPackage(pkgName).scope
NameOf(pkgName) == MatchPackage(pkgName).name

ResolveOne(pkgName, up) ==
    ResolveOf(pkgName, MatchPackage(pkgName),
              ExactLookup(ScopeOf(pkgName), NameOf(pkgName), up),
              FallbackSearch(pkgName, up))

\* the branch an iteration took
PathOf(r) ==
    IF r.calls = <<>> THEN "invalid"
    ELSE IF r.entry.found /\ "fallback" \notin DOMAIN r.entry THEN "exact"
    ELSE "fallback"

\* packageDetails.filter(pkg => pkg.found)
FoundPackages(details) == SelectSeq(details, LAMBDA e : e.found)

\* mutant: entries of identifiers in an invalid format are left out
NotFoundPackagesValidOnly(details) ==
    SelectSeq(details, LAMBDA e : ~ e.found /\ e.error # InvalidFormat)

\* packageDetails.filter(pkg => !pkg.found)
NotFoundPackages(details) == SelectSeq(details, LAMBDA e : ~ e.found)

NoCmpResult == [none |-> TRUE]

\* what each call the handler awaits may deliver; a call is named by the
\* field of Upstreams that holds its outcome, "detailsFallback" being the
\* details fetch getPackageInfoDirect falls back to
OutcomesOf(call) ==
    CASE call = "meta" -> RegistryOutcomes
      [] call = "detailsFallback" -> {"ok", "fail"}
      [] call = "details" -> RegistryOutcomes
      [] call = "downloads" -> CmpDownloadOutcomes
      [] OTHER -> CmpSearchOutcomes

\* mutant: the download summary is fetched before the details
NextAwaitSummaryFirst(call, scope, name, got) ==
    CASE call = "meta" ->
            IF fetchJSRDirect(got.meta).thrown THEN "detailsFallback" ELSE "downloads"
      [] call = "detailsFallback" ->
            IF getPackageDetails(got.detailsFallback).thrown THEN "search" ELSE "downloads"
      [] call = "downloads" -> "details"
      [] call = "details" ->
            IF ExactLookup(scope, name, got).thrown THEN "search" ELSE "push"
      [] OTHER -> "push"

\* where the iteration goes when the call it awaits has completed: the next
\* call it issues, or "push" when it pushes its entry
NextAwait(call, scope, name, got) ==
    CASE call = "meta" ->
            IF fetchJSRDirect(got.meta).thrown THEN "detailsFallback" ELSE "details"
      [] call = "detailsFallback" ->
            IF getPackageDetails(got.detailsFallback).thrown THEN "search" ELSE "details"
      [] call = "details" ->
            IF getPackageDetails(got.details).thrown THEN "search" ELSE "downloads"
      [] call = "downloads" ->
            IF ExactLookup(scope, name, got).thrown THEN "search" ELSE "push"
      [] OTHER -> "push"

Issued(k, call) == [k |-> k, call |-> call, ev |-> "issued"]
Completed(k, call) == [k |-> k, call |-> call, ev |-> "completed"]

AwaitIdle ==
    /\ cmpAwaiting = "none"
    /\ cmpGot = NoUpstream
    /\ cmpTrace = <<>>

McpIdle ==
    /\ runPermission = "granted"
    /\ tools = RegisteredTools(runPermission)
    /\ cmpPc = "idle"
    /\ packages = <<>>
    /\ packageDetails = <<>>
    /\ cmpCalls = <<>>
    /\ cmpResult = NoCmpResult
    /\ AwaitIdle

(***************************************************************************)
(* The command line (cli.ts): main and the handlers of `details` and       *)
(* `downloads`.  Positional arguments are sequences of characters.         *)
(***************************************************************************)
CliCommands == {"details", "downloads"}

\* the first positional argument: a command, "help", "version", something
\* unknown, or "" when there is none
CliWords == CliCommands \cup {"help", "version", "frobnicate"}

Positionals == {<<"s">>, <<"h">>, <<"@", "s", "/", "h">>, <<"s", "/", "h">>}

ArgLists ==
    {<<>>} \cup {<<a>> : a \in Positionals} \cup {<<a, b>> : a, b \in Positionals}

Argvs ==
    {[command |-> "", args |-> <<>>]}
        \cup {[command |-> c, args |-> as] : c \in CliWords, as \in ArgLists}

\* what `${packageName}` shows when split("/", 2) delivered one piece only
Undefined == <<"undefined">>

\* const [scope, packageName] = scopeAndPackage.split("/", 2)
SplitTwo(s) ==
    LET p == FirstSlash(s)
        rest == SubSeq(s, p + 1, Len(s))
        q == FirstSlash(rest)
    IN  IF p = 0 THEN [scope |-> s, packageName |-> Undefined]
        ELSE [scope |-> SubSeq(s, 1, p - 1),
              packageName |-> IF q = 0 THEN rest ELSE SubSeq(rest, 1, q - 1)]

\* scope.startsWith("@") ? scope.slice(1) : scope
ScopeName(scope) == IF Len(scope) >= 1 /\ scope[1] = "@" THEN Tail(scope) ELSE scope

\* the package a handler asks for, given its single argument
CliTarget(arg) ==
    [scope |-> ScopeName(SplitTwo(arg).scope), name |-> SplitTwo(arg).packageName]

Request(fn, target, ok) == [fn |-> fn, scope |-> target.scope, name |-> target.name, ok |-> ok]

\* the try block of commands.details.handler: getPackageDetails, then
\* getPackageDownloadSummary, then getPackageInfoDirect, then the printing
DetailsHandler(target, up) ==
    LET details == getPackageDetails(up.details)
        summary == getPackageDownloadSummary(up.downloads)
        meta == getPackageInfoDirect(up.meta, up.detailsFallback)
        r1 == <<Request("getPackageDetails", target, ~ details.thrown)>>
        r2 == r1 \o <<Request("getPackageDownloadSummary", target, ~ summary.raised)>>
        r3 == r2 \o <<Request("getPackageInfoDirect", target, ~ meta.thrown)>>
    IN  IF details.thrown THEN [failed |-> TRUE, requests |-> r1]
        ELSE IF summary.raised THEN [failed |-> TRUE, requests |-> r2]
        ELSE [failed |-> meta.thrown, requests |-> r3]

\* the try block of commands.downloads.handler
DownloadsHandler(target, outcome) ==
    LET summary == getPackageDownloadSummary(outcome)
    IN  [failed |-> summary.raised,
         requests |-> <<Request("getPackageDownloadSummary", target, ~ summary.raised)>>]

\* the registry answers the command line meets: objects or failures
CliUpstreams ==
    [meta : {"ok", "fail"}, detailsFallback : {"ok", "fail"}, details : {"ok", "fail"},
     downloads : CmpDownloadOutcomes]

NoArgv == [command |-> "", args |-> <<>>]

CliIdle ==
    /\ cliArgv = NoArgv
    /\ cliPc = "start"
    /\ cliRequests = <<>>
    /\ cliExitCode = 0

(***************************************************************************)
(* getPackageDownloadSummary as a process: the call, then the completion   *)
(* of the fetch, one action per way the fetch can end.                     *)
(***************************************************************************)
SumCall ==
    /\ sumPc = "idle"
    /\ sumPc' = "awaiting"
    /\ UNCHANGED <<registryBody, sumOutcome, sumResult>>
    /\ UNCHANGED <<fsVars, mcpVars, cliVars>>

SumFinish(outcome) ==
    LET r == getPackageDownloadSummary(outcome)
    IN  /\ sumPc = "awaiting"
        /\ sumOutcome' = outcome
        /\ sumPc' = IF r.raised THEN "raised" ELSE "returned"
        /\ sumResult' = IF r.raised THEN NoSummary ELSE r.value
        /\ UNCHANGED registryBody
        /\ UNCHANGED <<fsVars, mcpVars, cliVars>>

SumFetchNetworkError == SumFinish(NetworkError)

SumFetchHttpError == \E st \in HttpStatuses : SumFinish(HttpError(st))

SumFetchMalformedJson == SumFinish(MalformedJson)

SumFetchJson == SumFinish(JsonOk(registryBody))

SumIdle ==
    /\ sumPc = "idle"
    /\ sumOutcome = NoOutcome
    /\ sumResult = NoSummary

FsIdle ==
    /\ fsPc = "idle"
    /\ fsArgs = NoArgs
    /\ packageResult = NoSearchResult
    /\ similarRequest = NoRequest
    /\ similarResults = NoSearchResult
    /\ limitedResults = <<>>
    /\ downloadTasks = <<>>
    /\ fsResult = NoResult

SumInit == registryBody \in Bodies /\ SumIdle /\ FsIdle /\ McpIdle /\ CliIdle

SumNext ==
    \/ SumCall
    \/ SumFetchNetworkError
    \/ SumFetchHttpError
    \/ SumFetchMalformedJson
    \/ SumFetchJson

SpecSummary == SumInit /\ [][SumNext]_vars

(***************************************************************************)
(* findSimilarPackages as a process.                                       *)
(***************************************************************************)
\* the call: the resolving search queryOrama(packageName, {limit: 1, ...}) is issued
FsCall ==
    /\ fsPc = "idle"
    /\ \E args \in ArgsSet : fsArgs' = args
    /\ fsPc' = "resolving"
    /\ UNCHANGED <<packageResult, similarRequest, similarResults, limitedResults,
                   downloadTasks, fsResult>>
    /\ UNCHANGED <<sumVars, mcpVars, cliVars>>

\* the resolving search has answered
FsResolved(outcome) ==
    LET res == queryOrama(outcome)
    IN  /\ fsPc = "resolving"
        /\ packageResult' = res
        /\ IF res.raised
           THEN /\ fsPc' = "raised"
                /\ UNCHANGED <<similarRequest, fsResult>>
           ELSE IF Len(res.hits) = 0
           THEN /\ fsPc' = "done"
                /\ fsResult' = NotFoundResult
                /\ UNCHANGED similarRequest
           ELSE /\ fsPc' = "searching"
                /\ similarRequest' =
                      SearchParams(<<res.hits[1].document.name, res.hits[1].document.description>>,
                                   SimilarOptions(fsArgs))
                /\ UNCHANGED fsResult
        /\ UNCHANGED <<fsArgs, similarResults, limitedResults, downloadTasks>>
        /\ UNCHANGED <<sumVars, mcpVars, cliVars>>

FsResolveHit == \E d \in ResolvedDocs : FsResolved(SearchOk(<<d>>))

FsResolveNoHit == FsResolved(SearchOk(<<>>))

FsResolveFails == \E o \in SearchFailures : FsResolved(o)

\* the similarity search has answered: filter, truncate, launch the downloads
FsSimilar(outcome) ==
    LET res == queryOrama(outcome)
        pkg == packageResult.hits[1].document
        limited == Limited(Filtered(res.hits, pkg), fsArgs)
    IN  /\ fsPc = "searching"
        /\ similarResults' = res
        /\ IF res.raised
           THEN /\ fsPc' = "raised"
                /\ UNCHANGED <<limitedResults, downloadTasks, fsResult>>
           ELSE /\ limitedResults' = limited
                /\ IF IncludeDownloads(fsArgs)
                   THEN /\ downloadTasks' = Launched(limited)
                        /\ fsPc' = "enriching"
                        /\ UNCHANGED fsResult
                   ELSE /\ fsResult' = FoundResult(limited, pkg)
                        /\ fsPc' = "done"
                        /\ UNCHANGED downloadTasks
        /\ UNCHANGED <<fsArgs, packageResult, similarRequest>>
        /\ UNCHANGED <<sumVars, mcpVars, cliVars>>

FsSimilarHits == \E docs \in SeqsUpTo(Docs, MaxHits) : FsSimilar(SearchOk(docs))

\* a long answer; explored for calls that fetch no downloads
FsSimilarManyHits ==
    /\ fsPc = "searching"
    /\ ~ IncludeDownloads(fsArgs)
    /\ \E docs \in LongRankings(packageResult.hits[1].document) : FsSimilar(SearchOk(docs))

FsSimilarFails == \E o \in SearchFailures : FsSimilar(o)

\* the download fetch of one hit ends, in any order among the hits
FsDownloadDone ==
    /\ fsPc = "enriching"
    /\ \E i \in 1..Len(downloadTasks), o \in EnrichOutcomes :
          /\ downloadTasks[i].state = "pending"
          /\ downloadTasks' =
                [downloadTasks EXCEPT ![i] = Fulfilled(o, Enhance(limitedResults[i], o))]
    /\ UNCHANGED <<fsPc, fsArgs, packageResult, similarRequest, similarResults,
                   limitedResults, fsResult>>
    /\ UNCHANGED <<sumVars, mcpVars, cliVars>>

\* Promise.all resolves once every download promise has
FsJoin ==
    /\ fsPc = "enriching"
    /\ AllFulfilled(downloadTasks)
    /\ fsResult' = FoundResult(Joined(downloadTasks), packageResult.hits[1].document)
    /\ fsPc' = "done"
    /\ UNCHANGED <<fsArgs, packageResult, similarRequest, similarResults,
                   limitedResults, downloadTasks>>
    /\ UNCHANGED <<sumVars, mcpVars, cliVars>>

FsInit == registryBody = NullBody /\ SumIdle /\ FsIdle /\ McpIdle /\ CliIdle

FsNext ==
    \/ FsCall
    \/ FsResolveHit
    \/ FsResolveNoHit
    \/ FsResolveFails
    \/ FsSimilarHits
    \/ FsSimilarManyHits
    \/ FsSimilarFails
    \/ FsDownloadDone
    \/ FsJoin

SpecSimilar == FsInit /\ [][FsNext]_vars

(***************************************************************************)
(* The MCP server as a process: the tools are registered when the module   *)
(* loads; the compare tool runs its loop one identifier at a time.         *)
(***************************************************************************)
\* the compare tool is called
CmpCall ==
    /\ cmpPc = "idle"
    /\ "compare" \in tools
    /\ \E ps \in PackageLists : packages' = ps
    /\ cmpPc' = "looping"
    /\ packageDetails' = <<>>
    /\ cmpCalls' = <<>>
    /\ UNCHANGED <<runPermission, tools, cmpResult, awaitVars>>
    /\ UNCHANGED <<sumVars, fsVars, cliVars>>

NextIdentifier == packages[Len(packageDetails) + 1]

\* one iteration of the loop pushes the entry r.entry after the calls r.calls
CmpPush(r, path) ==
    /\ PathOf(r) = path
    /\ packageDetails' = Append(packageDetails, r.entry)
    /\ cmpCalls' = Append(cmpCalls, r.calls)
    /\ UNCHANGED <<runPermission, tools, cmpPc, packages, cmpResult, awaitVars>>
    /\ UNCHANGED <<sumVars, fsVars, cliVars>>

\* the identifier does not match the pattern: no upstream call is made
CmpInvalidFormat ==
    /\ cmpPc = "looping"
    /\ Len(packageDetails) < Len(packages)
    /\ CmpPush(ResolveOne(NextIdentifier, NoUpstream), "invalid")

\* the exact lookup goes through
CmpExactLookup ==
    /\ cmpPc = "looping"
    /\ Len(packageDetails) < Len(packages)
    /\ \E up \in Upstreams : CmpPush(ResolveOne(NextIdentifier, up), "exact")

\* the exact lookup throws: the fallback search decides
CmpFallbackSearch ==
    /\ cmpPc = "looping"
    /\ Len(packageDetails) < Len(packages)
    /\ \E up \in Upstreams : CmpPush(ResolveOne(NextIdentifier, up), "fallback")

\* after the loop: the two filters and the answer
CmpReturn ==
    /\ cmpPc = "looping"
    /\ Len(packageDetails) = Len(packages)
    /\ cmpResult' = [comparedPackages |-> packages,
                     foundPackages |-> FoundPackages(packageDetails),
                     notFoundPackages |-> NotFoundPackages(packageDetails)]
    /\ cmpPc' = "returned"
    /\ UNCHANGED <<runPermission, tools, packages, packageDetails, cmpCalls, awaitVars>>
    /\ UNCHANGED <<sumVars, fsVars, cliVars>>

McpInit ==
    /\ registryBody = NullBody /\ SumIdle /\ FsIdle /\ CliIdle
    /\ runPermission \in PermissionStates
    /\ tools = RegisteredTools(runPermission)
    /\ cmpPc = "idle"
    /\ packages = <<>>
    /\ packageDetails = <<>>
    /\ cmpCalls = <<>>
    /\ cmpResult = NoCmpResult
    /\ AwaitIdle

McpNext ==
    \/ CmpCall
    \/ CmpInvalidFormat
    \/ CmpExactLookup
    \/ CmpFallbackSearch
    \/ CmpReturn

SpecMcp == McpInit /\ [][McpNext]_vars

(***************************************************************************)
(* The compare loop await by await: an iteration issues a call, is         *)
(* suspended until it completes, and runs on to its next await or to the   *)
(* push of its entry.                                                      *)
(***************************************************************************)
AwPush(r) ==
    /\ packageDetails' = Append(packageDetails, r.entry)
    /\ cmpCalls' = Append(cmpCalls, r.calls)
    /\ UNCHANGED <<runPermission, tools, cmpPc, packages, cmpResult>>
    /\ UNCHANGED <<sumVars, fsVars, cliVars>>

\* if (!match) { packageDetails.push(...); continue; }
AwInvalidFormat ==
    /\ cmpPc = "looping"
    /\ cmpAwaiting = "none"
    /\ Len(packageDetails) < Len(packages)
    /\ ~ MatchPackage(NextIdentifier).matched
    /\ AwPush(ResolveOne(NextIdentifier, NoUpstream))
    /\ UNCHANGED awaitVars

\* the iteration reaches `await getPackageInfoDirect(scope, name)`
AwIssueFirst ==
    /\ cmpPc = "looping"
    /\ cmpAwaiting = "none"
    /\ Len(packageDetails) < Len(packages)
    /\ MatchPackage(NextIdentifier).matched
    /\ cmpAwaiting' = "meta"
    /\ cmpGot' = NoUpstream
    /\ cmpTrace' = Append(cmpTrace, Issued(Len(packageDetails) + 1, "meta"))
    /\ UNCHANGED <<runPermission, tools, cmpPc, packages, packageDetails, cmpCalls,
                   cmpResult>>
    /\ UNCHANGED <<sumVars, fsVars, cliVars>>

\* the awaited call completes with outcome o and the iteration runs on
AwResume(call, got, next) ==
    LET k == Len(packageDetails) + 1
    IN  /\ cmpGot' = got
        /\ IF next = "push"
           THEN /\ AwPush(ResolveOne(NextIdentifier, got))
                /\ cmpAwaiting' = "none"
                /\ cmpTrace' = Append(cmpTrace, Completed(k, call))
           ELSE /\ cmpAwaiting' = next
                /\ cmpTrace' = cmpTrace \o <<Completed(k, call), Issued(k, next)>>
                /\ UNCHANGED <<runPermission, tools, cmpPc, packages, packageDetails,
                               cmpCalls, cmpResult>>
                /\ UNCHANGED <<sumVars, fsVars, cliVars>>

AwSettle(call, o) ==
    /\ cmpPc = "looping"
    /\ cmpAwaiting = call
    /\ AwResume(call, [cmpGot EXCEPT ![call] = o],
                NextAwait(call, ScopeOf(NextIdentifier), NameOf(NextIdentifier),
                          [cmpGot EXCEPT ![call] = o]))

AwMetaSettles == \E o \in OutcomesOf("meta") : AwSettle("meta", o)

AwDetailsFallbackSettles ==
    \E o \in OutcomesOf("detailsFallback") : AwSettle("detailsFallback", o)

AwDetailsSettles == \E o \in OutcomesOf("details") : AwSettle("details", o)

AwDownloadsSettle == \E o \in OutcomesOf("downloads") : AwSettle("downloads", o)

AwSearchSettles == \E o \in OutcomesOf("search") : AwSettle("search", o)

AwNext ==
    \/ CmpCall
    \/ AwInvalidFormat
    \/ AwIssueFirst
    \/ AwMetaSettles
    \/ AwDetailsFallbackSettles
    \/ AwDetailsSettles
    \/ AwDownloadsSettle
    \/ AwSearchSettles
    \/ CmpReturn

SpecCompare == McpInit /\ [][AwNext]_vars

(***************************************************************************)
(* The command line as a process: main dispatches, the handler fetches.    *)
(***************************************************************************)
\* `help` and `version` print and return
CliHelpOrVersion ==
    /\ cliPc = "start"
    /\ cliArgv.command \in {"help", "version"}
    /\ cliPc' = "printed"
    /\ UNCHANGED <<cliArgv, cliRequests, cliExitCode>>
    /\ UNCHANGED <<sumVars, fsVars, mcpVars>>

\* no command, or one that `commands` does not hold: Deno.exit(1)
CliNoSuchCommand ==
    /\ cliPc = "start"
    /\ cliArgv.command \notin CliCommands \cup {"help", "version"}
    /\ cliPc' = "exited"
    /\ cliExitCode' = 1
    /\ UNCHANGED <<cliArgv, cliRequests>>
    /\ UNCHANGED <<sumVars, fsVars, mcpVars>>

\* both handlers start with `if (args.length !== 1)`: usage error, Deno.exit(1)
CliUsageError ==
    /\ cliPc = "start"
    /\ cliArgv.command \in CliCommands
    /\ Len(cliArgv.args) # 1
    /\ cliPc' = "exited"
    /\ cliExitCode' = 1
    /\ UNCHANGED <<cliArgv, cliRequests>>
    /\ UNCHANGED <<sumVars, fsVars, mcpVars>>

\* one argument: it is split and the fetches begin
CliFetch ==
    /\ cliPc = "start"
    /\ cliArgv.command \in CliCommands
    /\ Len(cliArgv.args) = 1
    /\ cliPc' = "fetching"
    /\ UNCHANGED <<cliArgv, cliRequests, cliExitCode>>
    /\ UNCHANGED <<sumVars, fsVars, mcpVars>>

CliFinish(r) ==
    /\ cliRequests' = r.requests
    /\ cliPc' = IF r.failed THEN "exited" ELSE "printed"
    /\ cliExitCode' = IF r.failed THEN 1 ELSE 0
    /\ UNCHANGED cliArgv
    /\ UNCHANGED <<sumVars, fsVars, mcpVars>>

CliDetailsDone ==
    /\ cliPc = "fetching"
    /\ cliArgv.command = "details"
    /\ \E up \in CliUpstreams : CliFinish(DetailsHandler(CliTarget(cliArgv.args[1]), up))

CliDownloadsDone ==
    /\ cliPc = "fetching"
    /\ cliArgv.command = "downloads"
    /\ \E o \in CmpDownloadOutcomes :
          CliFinish(DownloadsHandler(CliTarget(cliArgv.args[1]), o))

CliInit ==
    /\ registryBody = NullBody /\ SumIdle /\ FsIdle /\ McpIdle
    /\ cliArgv \in Argvs
    /\ cliPc = "start"
    /\ cliRequests = <<>>
    /\ cliExitCode = 0

CliNext ==
    \/ CliHelpOrVersion
    \/ CliNoSuchCommand
    \/ CliUsageError
    \/ CliFetch
    \/ CliDetailsDone
    \/ CliDownloadsDone

SpecCli == CliInit /\ [][CliNext]_vars

(***************************************************************************)
(* Properties of getPackageDownloadSummary (checked under SpecSummary).    *)
(***************************************************************************)
NumericFields == {"totalDownloads", "recentDownloads", "latestVersionDownloads",
                  "activityEntries", "last7DaysAverage", "weeklyAverage", "monthlyAverage"}

SummaryFields == NumericFields \cup {"latestVersion", "weeklySums", "monthlySums"}

AllZero(s) ==
    /\ \A f \in NumericFields : s[f] = 0
    /\ s.weeklySums = <<>>
    /\ s.monthlySums = <<>>

\* the fetch did not deliver a JSON object: HTTP failure, network error,
\* unparsable body, null body, or a `total` that is no array
FetchFailed(o) ==
    \/ o.kind \in {"network", "http", "badjson"}
    \/ o.kind = "json" /\ (o.body.jsonType = "null" \/ o.body.totalKind = "number")

FetchedSeries(o) == o.kind = "json" /\ o.body.jsonType = "object" /\ o.body.totalKind # "number"

EmptySeries(o) == FetchedSeries(o) /\ o.body.total = <<>>

\* C1: getPackageDownloadSummary never raises; it always returns a complete
\* DownloadSummary, and when the fetch fails (HTTP failure, network error,
\* malformed or null body) the summary has `error` set, every numeric field 0,
\* latestVersion 'Unknown' and empty weeklySums and monthlySums.
C1_NeverRaises ==
    /\ sumPc # "raised"
    /\ sumPc = "returned" => SummaryFields \subseteq DOMAIN sumResult
    /\ (sumPc = "returned" /\ FetchFailed(sumOutcome)) =>
          /\ "error" \in DOMAIN sumResult
          /\ AllZero(sumResult)
          /\ sumResult.latestVersion = "Unknown"

C1_Witness ==
    /\ sumPc = "returned"
    /\ sumOutcome.kind = "json"
    /\ sumOutcome.body.jsonType = "null"
    /\ "error" \in DOMAIN sumResult

C3_EmptySeriesAllZero ==
    /\ (sumPc \in {"returned", "raised"} /\ EmptySeries(sumOutcome)
            /\ sumOutcome.body.recentVersions = <<>>) =>
          /\ sumPc = "returned"
          /\ AllZero(sumResult)

C3_Witness ==
    /\ sumPc = "returned"
    /\ EmptySeries(sumOutcome)
    /\ sumOutcome.body.totalKind = "array"
    /\ sumOutcome.body.versionsKind = "array"
    /\ sumOutcome.body.recentVersions = <<>>
    /\ AllZero(sumResult)

\* the sum of the counts of the points with 0-based index in [lo, hi)
RECURSIVE SumRange(_, _, _)
SumRange(s, lo, hi) == IF lo >= hi THEN 0 ELSE s[hi].count + SumRange(s, lo, hi - 1)

\* the trailing non-overlapping windows of w points, at most k, oldest first
ExpectedWindows(s, w, k) ==
    LET n == Len(s)
        m == Cardinality({i \in 0..(k - 1) : n - w * (i + 1) >= 0})
    IN  [j \in 1..m |-> SumRange(s, n - w * (m - j + 1), n - w * (m - j))]

\* C4: weeklySums (w = 7, k = 4) and monthlySums (w = 30, k = 6) hold, oldest
\* first, exactly the sums of the windows [n - w*(i+1), n - w*i), i in 0..k-1,
\* whose start index is >= 0; a 5-point series gives weeklySums = [].
C4_WindowSums ==
    (sumPc = "returned" /\ FetchedSeries(sumOutcome)) =>
        /\ sumResult.weeklySums = ExpectedWindows(sumOutcome.body.total, 7, 4)
        /\ sumResult.monthlySums = ExpectedWindows(sumOutcome.body.total, 30, 6)
        /\ Len(sumOutcome.body.total) = 5 => sumResult.weeklySums = <<>>

C4_Witness ==
    /\ sumPc = "returned"
    /\ FetchedSeries(sumOutcome)
    /\ Len(sumOutcome.body.total) = 100
    /\ Len(sumResult.weeklySums) = 4
    /\ Len(sumResult.monthlySums) = 3
    /\ sumResult.weeklySums[3] # sumResult.weeklySums[4]
    /\ sumResult.monthlySums[1] > 0

\* C5: the length of monthlySums is min(6, floor(n / 30)) for a series of n points.
C5_MonthlyLength ==
    (sumPc = "returned" /\ FetchedSeries(sumOutcome)) =>
        Len(sumResult.monthlySums) = Min(6, Len(sumOutcome.body.total) \div 30)

C5_Witness ==
    /\ sumPc = "returned"
    /\ FetchedSeries(sumOutcome)
    /\ Len(sumOutcome.body.total) > 180
    /\ Len(sumResult.monthlySums) = 6

(***************************************************************************)
(* Properties of findSimilarPackages (checked under SpecSimilar).          *)
(***************************************************************************)
Found == fsPc = "done" /\ "originalPackage" \in DOMAIN fsResult

NotFound == fsPc = "done" /\ "error" \in DOMAIN fsResult

HitIds(hits) == {hits[i].document.id : i \in 1..Len(hits)}

\* C6: no returned hit has the id of the returned originalPackage, whatever
\* the backend answers and whatever the limit.
C6_NoSelfMatch ==
    Found => fsResult.originalPackage.id \notin HitIds(fsResult.hits)

C6_Witness ==
    /\ Found
    /\ Len(similarResults.hits) >= 3
    /\ similarResults.hits[1].document.id = fsResult.originalPackage.id
    /\ similarResults.hits[2].document.id = fsResult.originalPackage.id
    /\ Len(fsResult.hits) = 1

\* C7 (as stated): called with "@std/http", no returned hit has the id
\* "@std/http", whatever the backend does.
C7_IdentifierNeverReturned ==
    (fsPc = "done" /\ fsArgs.packageName = "@std/http") =>
        "@std/http" \notin HitIds(fsResult.hits)

\* C7 (amended): called with "@std/http", no returned hit has the id
\* "@std/http" when the resolving search resolved the identifier to the
\* document with that id.
C7_IdentifierExcludedWhenResolved ==
    (Found /\ fsArgs.packageName = "@std/http"
           /\ packageResult.hits[1].document.id = "@std/http") =>
        "@std/http" \notin HitIds(fsResult.hits)

C7_Witness ==
    /\ Found
    /\ fsArgs.packageName = "@std/http"
    /\ packageResult.hits[1].document.id = "@std/http"
    /\ Len(similarResults.hits) >= 2
    /\ similarResults.hits[1].document.id = "@std/http"
    /\ Len(fsResult.hits) >= 1

\* C8: findSimilarPackages ends in NotFound when the resolving search returns
\* no hit and in no other circumstance: not after an upstream failure of the
\* search backend, and not after a successful resolution.
C8_NotFoundOnlyWhenUnresolved ==
    /\ (fsPc \notin {"idle", "resolving"} /\ "error" \notin DOMAIN packageResult
            /\ Len(packageResult.hits) = 0) => NotFound
    /\ NotFound => "error" \notin DOMAIN packageResult
    /\ Len(packageResult.hits) > 0 => ~ NotFound

\* the fetch of a hit's download series delivered a series
FetchSucceeded(o) == ~ FetchFailed(o)

\* C9: with includeDownloads enabled, whatever subset of the N download
\* fetches fails, the call succeeds and returns all N hits; a hit carries a
\* summary iff its own fetch succeeded, and an attached summary has no error.
C9_PartialFailure ==
    /\ fsPc = "enriching" => Len(downloadTasks) = Len(limitedResults)
    /\ fsPc # "raised"
    /\ (Found /\ IncludeDownloads(fsArgs)) =>
          /\ Len(fsResult.hits) = Len(limitedResults)
          /\ fsResult.count = Len(limitedResults)
          /\ \A i \in 1..Len(fsResult.hits) :
                /\ fsResult.hits[i].document = limitedResults[i].document
                /\ "downloads" \in DOMAIN fsResult.hits[i]
                      <=> FetchSucceeded(downloadTasks[i].outcome)
                /\ "downloads" \in DOMAIN fsResult.hits[i]
                      => "error" \notin DOMAIN fsResult.hits[i].downloads

C9_Witness ==
    /\ Found
    /\ IncludeDownloads(fsArgs)
    /\ Len(fsResult.hits) = 3
    /\ "downloads" \in DOMAIN fsResult.hits[1]
    /\ "downloads" \notin DOMAIN fsResult.hits[2]
    /\ "downloads" \in DOMAIN fsResult.hits[3]

\* the backend hits whose id differs from the original's, in rank order
Survivors ==
    SelectSeq(similarResults.hits,
              LAMBDA h : h.document.id # packageResult.hits[1].document.id)

Ranked(hits) == [i \in 1..Len(hits) |-> [document |-> hits[i].document, score |-> hits[i].score]]

C12_DefaultLimitSix ==
    (Found /\ ~ fsArgs.limitGiven) => Len(fsResult.hits) <= DocumentedSimilarLimit

\* C13: a failed search request (falsy answer, HTTP error of the search
\* service, any other throw) makes queryOrama raise; no answer of queryOrama
\* is a result object made from a failure.
C13_SearchFailureRaises ==
    /\ "error" \in DOMAIN packageResult => fsPc = "raised"
    /\ "error" \in DOMAIN similarResults => fsPc = "raised"

\* C16: for a requested limit L the similarity search is sent to the backend
\* with limit L + 1.
C16_OverFetchByOne ==
    (similarRequest # NoRequest /\ fsArgs.limitGiven) =>
        similarRequest.limit = fsArgs.limit + 1

(***************************************************************************)
(* Properties of the MCP server (checked under SpecMcp).                   *)
(***************************************************************************)
\* C14: without the `run` permission the docs tool is not registered and
\* every other tool, `search` included, is; with it the docs tool is registered.
C14_DocsToolNeedsRun ==
    /\ runPermission # "granted" =>
          /\ "package_docs" \notin tools
          /\ (AllTools \ {"package_docs"}) \subseteq tools
    /\ runPermission = "granted" => "package_docs" \in tools

\* the iterations of the compare loop that have finished
Done == 1..Len(packageDetails)

Matched(i) == MatchPackage(packages[i]).matched

IsExact(e) == e.found /\ "fallback" \notin DOMAIN e

IsFallback(e) == e.found /\ "fallback" \in DOMAIN e

\* the number of entries up to the i-th whose `found` is flag
Rank(i, flag) == Cardinality({j \in 1..i : packageDetails[j].found = flag})

SearchCalls(i) == SelectSeq(cmpCalls[i], LAMBDA c : c.fn = "queryOrama")

\* C11: every iteration pushes exactly one entry, the entry of its own
\* identifier; the answer holds each entry once, in `found` or in `notFound`
\* according to its flag, at the place its input position gives it; the two
\* lists have as many entries as the input, whatever failed on the way.
C11_PartitionTotal ==
    /\ Len(cmpCalls) = Len(packageDetails)
    /\ Len(packageDetails) <= Len(packages)
    /\ \A i \in Done :
          /\ ~ packageDetails[i].found => packageDetails[i].id = packages[i]
          /\ IsExact(packageDetails[i]) =>
                packageDetails[i].id
                    = <<"@">> \o ScopeOf(packages[i]) \o <<"/">> \o NameOf(packages[i])
    /\ cmpPc = "returned" =>
          /\ Len(packageDetails) = Len(packages)
          /\ Len(cmpResult.foundPackages) + Len(cmpResult.notFoundPackages) = Len(packages)
          /\ \A i \in Done :
                IF packageDetails[i].found
                THEN cmpResult.foundPackages[Rank(i, TRUE)] = packageDetails[i]
                ELSE cmpResult.notFoundPackages[Rank(i, FALSE)] = packageDetails[i]

C11_Witness ==
    /\ cmpPc = "returned"
    /\ packages = <<NoName, Scoped>>
    /\ Len(cmpResult.notFoundPackages) = 1
    /\ cmpResult.notFoundPackages[1].error = InvalidFormat
    /\ Len(cmpResult.foundPackages) = 1
    /\ IsExact(cmpResult.foundPackages[1])

\* the lookups of iteration i, in the words of its call log
InfoDelivered(log) ==
    /\ Len(log) >= 1
    /\ log[1].fn = "fetchJSRDirect"
    /\ \/ log[1].value = "object"
       \/ /\ ~ log[1].ok
          /\ Len(log) >= 2
          /\ log[2].fn = "getPackageDetails"
          /\ log[2].value = "object"

DetailsAt(log) == IF log[1].ok THEN 2 ELSE 3

DetailsDelivered(log) ==
    /\ Len(log) >= DetailsAt(log)
    /\ log[DetailsAt(log)].fn = "getPackageDetails"
    /\ log[DetailsAt(log)].value = "object"

\* C17 (as stated): an entry is an exact match only if every call of its
\* exact lookup succeeded (meta.json, details, download summary), and a
\* failing call sends the iteration to the fallback search.
C17_ExactNeedsAllThree ==
    \A i \in Done :
        /\ IsExact(packageDetails[i]) =>
              \A k \in 1..Len(cmpCalls[i]) :
                  cmpCalls[i][k].ok /\ cmpCalls[i][k].value = "object"
        /\ (\E k \in 1..Len(cmpCalls[i]) :
                ~ cmpCalls[i][k].ok \/ cmpCalls[i][k].value # "object")
              => SearchCalls(i) # <<>>

\* C17 (amended): an entry is an exact match exactly when getPackageInfoDirect
\* delivered package data (from meta.json, or from the details endpoint after
\* meta.json failed) and the details fetch delivered package data; the
\* download summary is then fetched, and when that fetch fails the entry is
\* still exact, with 0 downloads; otherwise the fallback search is issued.
C17_ExactNeedsInfoAndDetails ==
    \A i \in Done : Matched(i) =>
        LET log == cmpCalls[i]
            e == packageDetails[i]
        IN  /\ IsExact(e) <=> (InfoDelivered(log) /\ DetailsDelivered(log))
            /\ IsExact(e) =>
                  /\ Len(log) = DetailsAt(log) + 1
                  /\ log[Len(log)].fn = "getPackageDownloadSummary"
                  /\ log[Len(log)].value = "error" =>
                        (e.totalDownloads = 0 /\ e.recentDownloads = 0)
            /\ ~ IsExact(e) => log[Len(log)].fn = "queryOrama"

C17_Witness ==
    /\ cmpPc = "returned"
    /\ Len(packageDetails) = 2
    /\ IsExact(packageDetails[1])
    /\ ~ cmpCalls[1][1].ok
    /\ cmpCalls[1][4].value = "error"
    /\ IsExact(packageDetails[2])
    /\ cmpCalls[2][1].ok
    /\ packageDetails[2].totalDownloads > 0

\* C18: an iteration whose exact lookup failed issues exactly one search,
\* with limit 1, as its last call; its entry is found iff the search returned
\* a hit, and is then marked `fallback` and has no download fields; an exact
\* match issues no search.
C18_SingleFallbackSearch ==
    \A i \in Done :
        LET e == packageDetails[i]
            searches == SearchCalls(i)
        IN  /\ (Matched(i) /\ ~ IsExact(e)) =>
                  /\ Len(searches) = 1
                  /\ searches[1].limit = 1
                  /\ cmpCalls[i][Len(cmpCalls[i])] = searches[1]
                  /\ e.found <=> searches[1].hits >= 1
                  /\ e.found =>
                        /\ e.fallback
                        /\ {"totalDownloads", "recentDownloads"} \cap DOMAIN e = {}
            /\ (IsExact(e) \/ ~ Matched(i)) => searches = <<>>

C18_Witness ==
    /\ cmpPc = "returned"
    /\ Len(packageDetails) = 2
    /\ IsFallback(packageDetails[1])
    /\ packageDetails[1].id = CmpDoc.id
    /\ Matched(2)
    /\ ~ packageDetails[2].found
    /\ SearchCalls(2)[1].hits = 0

\* C19 (as stated): an entry put in notFound after the exact lookup and the
\* fallback search carries the message of a failed upstream call, not the
\* generic one.
C19_ReasonPreserved ==
    \A i \in Done :
        (Matched(i) /\ ~ packageDetails[i].found) =>
            packageDetails[i].error # "Package not found"

\* C19 (amended): an entry put in notFound after the exact lookup and the
\* fallback search carries the fixed message "Package not found", whatever
\* failed upstream; an identifier in an invalid format carries the message
\* about the format.
C19_GenericReason ==
    \A i \in Done :
        ~ packageDetails[i].found =>
            packageDetails[i].error
                = IF Matched(i) THEN "Package not found" ELSE InvalidFormat

C19_Witness ==
    /\ cmpPc = "returned"
    /\ Len(packageDetails) = 1
    /\ ~ packageDetails[1].found
    /\ Len(cmpCalls[1]) = 3
    /\ ~ cmpCalls[1][1].ok
    /\ ~ cmpCalls[1][2].ok
    /\ cmpCalls[1][3].fn = "queryOrama"
    /\ cmpCalls[1][3].value = "error"

\* C20 (as stated): scope/name, @scope/name and a bare name are all put
\* through the lookup chain.
C20_AllFormsLookedUp ==
    \A i \in Done :
        packages[i] \in {Scoped, ScopedAt, Bare} => cmpCalls[i] # <<>>

\* C20 (amended): an identifier is put through the lookup chain, for the
\* scope before its first "/" (without a leading "@") and the name after
\* it, exactly when it has a character before the first "/" and one after:
\* scope/name and @scope/name are, a bare name is not; an identifier that
\* is not gets an entry in notFound with the message about the format and
\* no upstream call is made for it.
C20_ScopedFormsOnly ==
    /\ \A i \in Done :
          /\ Matched(i) <=> packages[i] \in {Scoped, ScopedAt, ScopedDeep, AtSlash}
          /\ Matched(i) => (cmpCalls[i] # <<>> /\ cmpCalls[i][1].fn = "fetchJSRDirect")
          /\ ~ Matched(i) =>
                /\ cmpCalls[i] = <<>>
                /\ packageDetails[i] = NotFoundEntry(packages[i], InvalidFormat)
          /\ (packages[i] \in {Scoped, ScopedAt} /\ IsExact(packageDetails[i])) =>
                /\ packageDetails[i].id = ScopedAt
                /\ packageDetails[i].scope = <<"a">>
                /\ packageDetails[i].name = <<"b">>
          /\ (packages[i] = ScopedDeep /\ IsExact(packageDetails[i])) =>
                packageDetails[i].name = <<"b", "/", "b">>
          /\ (packages[i] = AtSlash /\ IsExact(packageDetails[i])) =>
                packageDetails[i].scope = <<"@">>

C20_Witness ==
    /\ cmpPc = "returned"
    /\ packages = <<Bare, ScopedAt>>
    /\ packageDetails[1] = NotFoundEntry(Bare, InvalidFormat)
    /\ cmpCalls[1] = <<>>
    /\ IsExact(packageDetails[2])
    /\ packageDetails[2].id = ScopedAt

(***************************************************************************)
(* Properties of the command line (checked under SpecCli).                 *)
(***************************************************************************)
\* C15: `details` and `downloads` called with two positional arguments,
\* scope then name, fetch the data of @scope/name; they do not end in the
\* usage error.
C15_TwoPositionals ==
    (cliPc \in {"printed", "exited"} /\ cliArgv.command \in CliCommands
        /\ cliArgv.args = << <<"s">>, <<"h">> >>) =>
            /\ cliRequests # <<>>
            /\ cliRequests[1].scope = <<"s">>
            /\ cliRequests[1].name = <<"h">>

(***************************************************************************)
(* Enrichment of findSimilarPackages, aggregates of the download summary   *)
(* and the trend lines of the download report.                             *)
(***************************************************************************)

InFlight(i) == downloadTasks[i].state = "pending"

\* C21: the download fetches of the surviving hits are all started together,
\* without a cap (none is held back while another is in flight), and the
\* operation returns only after every one of them has completed.
C21_AllLaunchedAllAwaited ==
    /\ fsPc = "enriching" =>
          /\ Len(downloadTasks) = Len(limitedResults)
          /\ \A i \in 1..Len(downloadTasks) :
                downloadTasks[i].state \in {"pending", "fulfilled"}
    /\ (Found /\ IncludeDownloads(fsArgs)) =>
          /\ Len(downloadTasks) = Len(limitedResults)
          /\ AllFulfilled(downloadTasks)
          /\ Len(fsResult.hits) = Len(limitedResults)

\* every fetch of a MaxHits-hit answer is in flight at once
C21_Witness ==
    /\ fsPc = "enriching"
    /\ Len(limitedResults) = MaxHits
    /\ \A i \in 1..MaxHits : InFlight(i)

\* the sum of the counts of a series, by the number of points of each count
RECURSIVE CountSum(_, _)
CountSum(s, c) ==
    IF c = 0 THEN 0
    ELSE c * Cardinality({i \in 1..Len(s) : s[i].count = c}) + CountSum(s, c - 1)

\* the calendar days between the first and the last point of the last w points
SpanOfLast(s, w) == s[Len(s)].timeBucket - s[Max(1, Len(s) - w + 1)].timeBucket

\* C22: recentDownloads is the sum of the counts of the last 30 points of
\* `total`, or of all points when there are fewer than 30; the points are
\* taken by position, whatever calendar days they carry.
C22_RecentIsLastThirtyPoints ==
    (sumPc = "returned" /\ FetchedSeries(sumOutcome)) =>
        LET total == sumOutcome.body.total
            n == Len(total)
        IN  sumResult.recentDownloads = SumRange(total, Max(0, n - 30), n)

\* more than 30 points, with gaps: the last 30 points reach back further than
\* 30 days, and the sum is not that of the whole series
C22_Witness ==
    /\ sumPc = "returned"
    /\ FetchedSeries(sumOutcome)
    /\ Len(sumOutcome.body.total) > 30
    /\ SpanOfLast(sumOutcome.body.total, 30) > 30
    /\ sumResult.recentDownloads > 0
    /\ sumResult.recentDownloads < sumResult.totalDownloads

\* C23: totalDownloads is the sum of `count` over all points of `total`, and 0
\* when `total` is absent or empty.
C23_TotalIsSumOfAllPoints ==
    (sumPc = "returned" /\ FetchedSeries(sumOutcome)) =>
        /\ sumResult.totalDownloads = CountSum(sumOutcome.body.total, CountMod - 1)
        /\ (sumOutcome.body.totalKind = "absent" \/ sumOutcome.body.total = <<>>) =>
              sumResult.totalDownloads = 0

C23_Witness ==
    /\ sumPc = "returned"
    /\ FetchedSeries(sumOutcome)
    /\ Len(sumOutcome.body.total) > 30
    /\ sumResult.totalDownloads > sumResult.recentDownloads
    /\ sumResult.totalDownloads > Len(sumOutcome.body.total)

\* r is x / m rounded to the nearest integer, halves upwards
IsRounded(r, x, m) == 2 * m * r <= 2 * x + m /\ 2 * x + m < 2 * m * (r + 1)

\* C24: last7DaysAverage is the sum of the last min(7, n) points divided by
\* min(7, n), rounded to the nearest integer, and 0 when there are no points.
C24_Last7DaysAverage ==
    (sumPc = "returned" /\ FetchedSeries(sumOutcome)) =>
        LET total == sumOutcome.body.total
            n == Len(total)
            m == Min(7, n)
        IN  IF n = 0 THEN sumResult.last7DaysAverage = 0
            ELSE IsRounded(sumResult.last7DaysAverage, SumRange(total, n - m, n), m)

\* fewer than 7 points, whose average is rounded upwards
C24_Witness ==
    /\ sumPc = "returned"
    /\ FetchedSeries(sumOutcome)
    /\ Len(sumOutcome.body.total) \in 1..6
    /\ sumResult.last7DaysAverage * Len(sumOutcome.body.total)
          > SumRange(sumOutcome.body.total, 0, Len(sumOutcome.body.total))

\* C25: weeklyAverage = 7 * d and monthlyAverage = 30 * d, where d is
\* round(totalDownloads / n) for n > 0 points and 0 otherwise; hence
\* monthlyAverage * 7 = weeklyAverage * 30.
C25_AveragesFromDaily ==
    /\ (sumPc = "returned" /\ FetchedSeries(sumOutcome)) =>
          LET n == Len(sumOutcome.body.total)
          IN  \E d \in 0..CountMod :
                 /\ IF n > 0 THEN IsRounded(d, sumResult.totalDownloads, n) ELSE d = 0
                 /\ sumResult.weeklyAverage = 7 * d
                 /\ sumResult.monthlyAverage = 30 * d
    /\ sumPc = "returned" => sumResult.monthlyAverage * 7 = sumResult.weeklyAverage * 30

\* the quotient is not an integer and is rounded upwards
C25_Witness ==
    /\ sumPc = "returned"
    /\ FetchedSeries(sumOutcome)
    /\ Len(sumOutcome.body.total) >= 2
    /\ sumResult.weeklyAverage > 0
    /\ (sumResult.weeklyAverage \div 7) * Len(sumOutcome.body.total)
          > sumResult.totalDownloads

FirstVersion == sumOutcome.body.recentVersions[1]

OwnCount(entry) ==
    IF entry.hasDownloads THEN SumRange(entry.downloads, 0, Len(entry.downloads)) ELSE 0

LabelledWindow(total, w, ago) ==
    SumRange(total, Len(total) - w * (ago + 1), Len(total) - w * ago)

\* C27: in the report of a computed summary the value labelled 'this week' is
\* the sum of the most recent 7 points and the one labelled 'k weeks ago' the
\* k-th 7-point window back from the end; likewise the months, with 30 points.
C27_LabelsNameTheirWindows ==
    (sumPc = "returned" /\ FetchedSeries(sumOutcome)) =>
        LET total == sumOutcome.body.total
            weeks == WeeklyTrends(sumResult)
            months == MonthlyTrends(sumResult)
        IN  /\ \A j \in 1..Len(weeks) :
                  weeks[j].sum = LabelledWindow(total, 7, weeks[j].ago)
            /\ \A j \in 1..Len(months) :
                  months[j].sum = LabelledWindow(total, 30, months[j].ago)

RECURSIVE SumSeq(_)
SumSeq(q) == IF q = <<>> THEN 0 ELSE q[1] + SumSeq(Tail(q))

\* C28: sum(weeklySums) <= recentDownloads <= totalDownloads, and a non-empty
\* monthlySums ends with recentDownloads.
C28_SummaryConsistent ==
    sumPc = "returned" =>
        /\ SumSeq(sumResult.weeklySums) <= sumResult.recentDownloads
        /\ sumResult.recentDownloads <= sumResult.totalDownloads
        /\ sumResult.monthlySums # <<>> =>
              sumResult.monthlySums[Len(sumResult.monthlySums)] = sumResult.recentDownloads

\* four weeks, several months, and both inequalities strict
C28_Witness ==
    /\ sumPc = "returned"
    /\ FetchedSeries(sumOutcome)
    /\ Len(sumResult.weeklySums) = 4
    /\ Len(sumResult.monthlySums) >= 2
    /\ SumSeq(sumResult.weeklySums) < sumResult.recentDownloads
    /\ sumResult.recentDownloads < sumResult.totalDownloads

\* C29: activityEntries is min(n, 30), the number of points of the recent
\* window; it is at most 30 and, for n > 30, less than the n the daily average
\* divides by.
C29_ActivityEntries ==
    (sumPc = "returned" /\ FetchedSeries(sumOutcome)) =>
        LET n == Len(sumOutcome.body.total)
        IN  /\ sumResult.activityEntries = Min(n, 30)
            /\ sumResult.activityEntries <= 30
            /\ n > 30 => sumResult.activityEntries # n

C29_Witness ==
    /\ sumPc = "returned"
    /\ FetchedSeries(sumOutcome)
    /\ Len(sumOutcome.body.total) > 30
    /\ sumResult.activityEntries = 30
    /\ sumResult.totalDownloads > 0

(***************************************************************************)
(* Order of the upstream calls of the compare tool.                        *)
(***************************************************************************)
\* the place of a call in the order metadata, details, download summary,
\* fallback search (the details fetch getPackageInfoDirect falls back to
\* belongs to the metadata lookup)
AwaitRank(call) ==
    CASE call = "meta" -> 1
      [] call = "detailsFallback" -> 2
      [] call = "details" -> 3
      [] call = "downloads" -> 4
      [] OTHER -> 5

\* an exact-path failure, as the calls of a finished iteration show it: a
\* call before the search threw, or delivered the null body whose
\* properties cannot be read
ExactPathFailed(k) ==
    \E j \in 1..Len(cmpCalls[k]) :
        /\ cmpCalls[k][j].fn # "queryOrama"
        /\ (~ cmpCalls[k][j].ok \/ cmpCalls[k][j].value = "null")

\* C30: the identifiers are resolved one at a time in input order: a call is
\* issued only when the call before it has completed, no call of identifier
\* k+1 is issued before identifier k has its entry, within an identifier the
\* calls go in the order metadata, details, download summary, search, and
\* the search is issued only after the exact path has failed.
C30_OneCallAtATimeInOrder ==
    LET t == cmpTrace
    IN  /\ \A j \in 1..Len(t) :
              IF j % 2 = 1
              THEN t[j].ev = "issued"
              ELSE /\ t[j].ev = "completed"
                   /\ t[j].k = t[j - 1].k
                   /\ t[j].call = t[j - 1].call
        /\ Len(t) % 2 = 1 <=> cmpAwaiting # "none"
        /\ \A j \in 1..Len(t) :
              /\ t[j].k \in 1..Len(packages)
              /\ t[j].k <= Len(packageDetails) + 1
              /\ t[j].k = Len(packageDetails) + 1 => cmpAwaiting # "none"
        /\ \A i, j \in 1..Len(t) :
              i < j =>
                 /\ t[i].k <= t[j].k
                 /\ (t[i].k = t[j].k /\ t[i].ev = "issued" /\ t[j].ev = "issued")
                       => AwaitRank(t[i].call) < AwaitRank(t[j].call)
        /\ \A j \in 1..Len(t) :
              (t[j].call = "search" /\ t[j].ev = "issued") =>
                 /\ j > 1
                 /\ t[j - 1].k = t[j].k
                 /\ t[j - 1].ev = "completed"
                 /\ t[j].k <= Len(packageDetails) =>
                       /\ ~ IsExact(packageDetails[t[j].k])
                       /\ ExactPathFailed(t[j].k)
        /\ \A k \in 1..Len(packageDetails) :
              IsExact(packageDetails[k]) =>
                 \A j \in 1..Len(t) : t[j].k = k => t[j].call # "search"

CallsIssuedFor(k) ==
    Cardinality({j \in 1..Len(cmpTrace) : cmpTrace[j].k = k /\ cmpTrace[j].ev = "issued"})

\* two identifiers: the first goes through all five calls, the second is an
\* exact match after three
C30_Witness ==
    /\ cmpPc = "returned"
    /\ Len(packages) = 2
    /\ CallsIssuedFor(1) = 5
    /\ CallsIssuedFor(2) = 3
    /\ IsExact(packageDetails[2])

====
